---- MODULE Spec2Model ----
(***************************************************************************)
(* Model of the request resolution engine of src/game.py: Game.add_user,   *)
(* Game.make_request, Game._apply_request and Task._gop_add_token, and of  *)
(* the GameList of src/game.py and src/server.py: insert_game, free_game.  *)
(*                                                                         *)
(* Python resolves attributes when they are read.  An attribute that no    *)
(* constructor of the source assigns is modelled as the empty sequence     *)
(* <<>> (absent) and reading it raises AttributeError; <<v>> is an         *)
(* attribute holding v.  The objects handed to the engine range over both  *)
(* the objects exactly as the source's constructors build them and objects *)
(* on which a caller has assigned the attributes the handlers read.        *)
(***************************************************************************)
EXTENDS Integers, Sequences, FiniteSets, TLC

VARIABLES state, requests, ret, twin, gamelist, alloc, run

vars == <<state, requests, ret, twin, gamelist, alloc, run>>

\* ---------------------------------------------------------------- bounds
MaxUsers == 2
MaxTick == 1
MaxRequestId == 2
MaxTokens == 1
\* The number of sessions handed to insert_game.
MaxGames == 4

\* ------------------------------------------------------ program constants
\* Optional[int] = None: the value of an absent operation target.
NoneId == -1
\* "Tasks start at id 1000."
TaskId == 1000
\* "| 10  | Product Backlog |": an interactable that is not a Task.
BacklogId == 10

UserIds == 1..MaxUsers
Ticks == 0..MaxTick
RequestIds == 1..MaxRequestId

\* User.Role, plus "Absent": User.__init__ assigns no role attribute.
Roles == {"Absent", "USER", "LEADER"}
\* Game.Phase
Phases == {"WAITING", "PLANNING", "SPRINT", "RETROSPECTIVE"}

\* An optional token counter attribute.
OptTokens == {<<>>} \cup {<<n>> : n \in 0..MaxTokens}

\* A User: __init__ sets user_id, name and authcode only.
NewUser == [role |-> "Absent", free_tokens |-> <<>>]

UserValues ==
    {[role |-> r, free_tokens |-> <<>>] : r \in Roles}
    \cup {[role |-> "USER", free_tokens |-> f] : f \in OptTokens}

\* GameObject.__init__ / Task.__init__: object_id and an empty operations
\* table; a Task adds task_type and length.  No token attribute is assigned.
NewGameObject ==
    [is_task |-> FALSE, operations |-> {}, current_tokens |-> <<>>,
     max_tokens |-> <<>>, cur_token |-> <<>>, cur_tokens |-> <<>>]

NewTask == [NewGameObject EXCEPT !.is_task = TRUE]

\* Tasks on which the caller registered the add_token handler and assigned
\* the token attributes.
TaskValues ==
    {NewTask, [NewTask EXCEPT !.operations = {"add_token"}]}
    \cup {[NewTask EXCEPT !.operations = {"add_token"},
                          !.current_tokens = <<c>>, !.max_tokens = <<m>>,
                          !.cur_token = IF has THEN <<c>> ELSE <<>>] :
            c \in 0..MaxTokens, m \in 0..MaxTokens, has \in BOOLEAN}

EmptyMap == [x \in {} |-> x]

ObjectSetups ==
    {EmptyMap}
    \cup {[o \in {TaskId} |-> t] : t \in TaskValues}
    \cup {[o \in {BacklogId} |-> [NewGameObject EXCEPT !.operations = {"add_token"}]]}

\* Game.State.__init__
NewState ==
    [objects |-> EmptyMap, req_backlog |-> <<>>, spr_backlog |-> <<>>,
     game_phase |-> "WAITING", sprint_count |-> 0, users |-> EmptyMap]

\* The operation names a request may carry; "end_game" has no handler.
Operations == {"start_game", "add_token", "end_game"}

\* A request object.  A GameRequest has the field operation_target and no
\* attribute target_id (target_id = <<>>); the other shape is an object that
\* also answers target_id with its operation target.
MkRequest(u, id, t, tgt, op, has) ==
    [user_id |-> u, request_id |-> id, target_tick |-> t,
     operation_target |-> tgt, operation |-> op,
     target_id |-> IF has THEN <<tgt>> ELSE <<>>]

Requests ==
    {MkRequest(u, id, t, tgt, op, has) :
        u \in UserIds, id \in RequestIds, t \in Ticks,
        tgt \in {NoneId, TaskId}, op \in Operations, has \in BOOLEAN}

\* ------------------------------------------------------ handler outcomes
\* A handler returns a State, returns None, or raises.
ReturnState(s) == [k |-> "State", st |-> <<s>>, exc |-> ""]
ReturnNone == [k |-> "None", st |-> <<>>, exc |-> ""]
Raise(e) == [k |-> "Raise", st |-> <<>>, exc |-> e]

\* Python truthiness of an Optional[int].
Truthy(x) == x # NoneId /\ x # 0

\* Task._gop_add_token(state, request)
GopAddToken(st, request) ==
    IF request.user_id \notin DOMAIN st.users THEN Raise("KeyError")
    ELSE IF st.users[request.user_id].free_tokens = <<>> THEN Raise("AttributeError")
    ELSE IF st.users[request.user_id].free_tokens[1] = 0 THEN ReturnNone
    ELSE IF request.target_id = <<>> THEN Raise("AttributeError")
    ELSE IF request.target_id[1] \notin DOMAIN st.objects THEN Raise("KeyError")
    ELSE LET target == st.objects[request.target_id[1]] IN
         IF ~target.is_task THEN Raise("ValueError")
         ELSE IF target.current_tokens = <<>> \/ target.max_tokens = <<>>
              THEN Raise("AttributeError")
         ELSE IF target.current_tokens = target.max_tokens THEN ReturnNone
         ELSE IF target.cur_token = <<>> THEN Raise("AttributeError")
         ELSE ReturnState([st EXCEPT !.objects[request.target_id[1]].cur_tokens =
                                        <<target.cur_token[1] + 1>>])

\* The game-scoped operation start_game of Game._apply_request.
StartGame(st, request) ==
    IF request.user_id \notin DOMAIN st.users THEN Raise("KeyError")
    ELSE IF st.users[request.user_id].role = "Absent" THEN Raise("AttributeError")
    ELSE IF st.users[request.user_id].role = "LEADER"
         THEN ReturnState([st EXCEPT !.game_phase = "PLANNING"])
    ELSE ReturnNone

\* Game._apply_request(state, request)
ApplyRequest(st, request) ==
    IF request.target_id = <<>> THEN Raise("AttributeError")
    ELSE IF Truthy(request.target_id[1]) THEN
         IF request.target_id[1] \notin DOMAIN st.objects THEN Raise("KeyError")
         ELSE IF request.operation \notin st.objects[request.target_id[1]].operations
              THEN Raise("KeyError")
         ELSE GopAddToken(st, request)
    ELSE IF request.operation = "start_game" THEN StartGame(st, request)
    ELSE ReturnNone

\* _apply_request on a working state that may be None (<<>>): every read of
\* an attribute of None raises AttributeError.
ApplyRequestOpt(ost, request) ==
    IF ost # <<>> THEN ApplyRequest(ost[1], request)
    ELSE IF request.target_id # <<>> /\ ~Truthy(request.target_id[1])
            /\ request.operation # "start_game"
         THEN ReturnNone
    ELSE Raise("AttributeError")

\* ------------------------------------------------------- Game.make_request
\* What a call left behind: the call, how it ended (kind: "returned" or
\* "raised" with the exception in exc), the request it was given, the
\* GameUpdate it returned (new, invalidates) and, for the properties, the
\* working State the request was validated against (working), the last
\* working State (out) and the committed requests it re-applied (reapplied).
\* For a handler call, object tells which object it returned: "copy" (one
\* that deepcopy created), "arg" (the State it was given) or "none".
NoRet ==
    [call |-> "none", kind |-> "none", exc |-> "", request |-> <<>>,
     new |-> <<>>, invalidates |-> <<>>, working |-> <<>>, out |-> <<>>,
     reapplied |-> <<>>, object |-> "none"]

\* A second Game that starts equal to the first and is given the same two
\* requests in the opposite order: its State and Timeline, the two requests,
\* how many of them each Game has been given (pc) and whether every call so
\* far returned with its request accepted.
NoTwin ==
    [state |-> NewState, requests |-> <<>>, first |-> <<>>, second |-> <<>>,
     pc |-> 0, accepted |-> TRUE]

\* sorted(self.requests.keys())
RECURSIVE SortedSeq(_)
SortedSeq(S) ==
    IF S = {} THEN <<>>
    ELSE LET m == CHOOSE x \in S : \A y \in S : x <= y
         IN <<m>> \o SortedSeq(S \ {m})

\* for req in self.requests[time]: current_state = self._apply_request(...)
\* (lines 138-139): the result replaces the working state, None included.
RECURSIVE ApplyBucket(_, _, _)
ApplyBucket(ocur, bucket, j) ==
    IF j > Len(bucket) THEN [k |-> "ok", cur |-> ocur, exc |-> ""]
    ELSE LET r == ApplyRequestOpt(ocur, bucket[j]) IN
         IF r.k = "Raise" THEN [k |-> "Raise", cur |-> <<>>, exc |-> r.exc]
         ELSE ApplyBucket(r.st, bucket, j + 1)

\* The first loop of make_request (lines 133-142): it runs while the tick is
\* greater than the target tick and breaks when the tick is greater than the
\* target tick.
RECURSIVE FirstLoop(_, _, _, _, _)
FirstLoop(reqs, times, time_i, ocur, request) ==
    IF time_i < Len(times) /\ times[time_i + 1] > request.target_tick
    THEN IF times[time_i + 1] > request.target_tick
         THEN [k |-> "ok", cur |-> ocur, time_i |-> time_i, exc |-> ""]
         ELSE LET b == ApplyBucket(ocur, reqs[times[time_i + 1]], 1) IN
              IF b.k = "Raise"
              THEN [k |-> "Raise", cur |-> <<>>, time_i |-> time_i, exc |-> b.exc]
              ELSE FirstLoop(reqs, times, time_i + 1, b.cur, request)
    ELSE [k |-> "ok", cur |-> ocur, time_i |-> time_i, exc |-> ""]

\* The second loop of make_request (lines 154-162): self.requests is indexed
\* with the loop counter time_i.
RECURSIVE SecondLoop(_, _, _, _, _, _, _)
SecondLoop(reqs, times_len, time_i, j, cur, inv, seen) ==
    IF time_i >= times_len
    THEN [k |-> "ok", cur |-> cur, inv |-> inv, seen |-> seen, exc |-> ""]
    ELSE IF time_i \notin DOMAIN reqs
    THEN [k |-> "Raise", cur |-> cur, inv |-> inv, seen |-> seen, exc |-> "KeyError"]
    ELSE IF j > Len(reqs[time_i])
    THEN SecondLoop(reqs, times_len, time_i + 1, 1, cur, inv, seen)
    ELSE LET req == reqs[time_i][j]
             proposed_state == ApplyRequest(cur, req)
         IN IF proposed_state.k = "Raise"
            THEN [k |-> "Raise", cur |-> cur, inv |-> inv,
                  seen |-> Append(seen, req), exc |-> proposed_state.exc]
            ELSE IF proposed_state.k = "State"
            THEN SecondLoop(reqs, times_len, time_i, j + 1, proposed_state.st[1],
                            inv, Append(seen, req))
            ELSE SecondLoop(reqs, times_len, time_i, j + 1, cur,
                            Append(inv, req), Append(seen, req))

Raised(call, request, e) ==
    [NoRet EXCEPT !.call = call, !.kind = "raised", !.exc = e,
                  !.request = <<request>>]

\* The else branch of lines 146-151: result.invalidates.append(request);
\* return result.
RejectedUpdate(request, working) ==
    [NoRet EXCEPT !.call = "make_request", !.kind = "returned",
                  !.request = <<request>>, !.invalidates = <<request>>,
                  !.working = working]

\* Game.make_request(request): what the call returns or raises.
MakeRequestResult(st, oreqs, request) ==
    IF oreqs = <<>> THEN Raised("make_request", request, "AttributeError")
    ELSE
    LET reqs == oreqs[1]
        times == SortedSeq(DOMAIN reqs)
        first == FirstLoop(reqs, times, 0, <<st>>, request)
    IN IF first.k = "Raise" THEN Raised("make_request", request, first.exc)
       ELSE
       LET applied == ApplyRequestOpt(first.cur, request) IN
       IF applied.k = "Raise"
       THEN [Raised("make_request", request, applied.exc)
                EXCEPT !.working = first.cur]
       ELSE IF applied.k = "None" THEN RejectedUpdate(request, first.cur)
       ELSE
       LET second == SecondLoop(reqs, Len(times), first.time_i, 1,
                                applied.st[1], <<>>, <<>>)
       IN IF second.k = "Raise"
          THEN [Raised("make_request", request, second.exc)
                   EXCEPT !.working = first.cur, !.reapplied = second.seen]
          ELSE [NoRet EXCEPT !.call = "make_request", !.kind = "returned",
                             !.request = <<request>>, !.new = <<request>>,
                             !.invalidates = second.inv,
                             !.working = first.cur, !.out = <<second.cur>>,
                             !.reapplied = second.seen]

\* self.state after make_request: no line of make_request assigns it, and
\* every handler works on a deepcopy.
MakeRequestState(st, oreqs, request) == st

\* A make_request that, when it returns with the request accepted, has
\* appended the request to the bucket of its target tick.
MakeRequestRequestsInsert(st, oreqs, request) ==
    IF MakeRequestResult(st, oreqs, request).new # <<>>
    THEN <<[t \in DOMAIN oreqs[1] \cup {request.target_tick} |->
              IF t \notin DOMAIN oreqs[1] THEN <<request>>
              ELSE IF t = request.target_tick THEN Append(oreqs[1][t], request)
              ELSE oreqs[1][t]]>>
    ELSE oreqs

\* self.requests after make_request: no line inserts into or removes from it.
MakeRequestRequests(st, oreqs, request) == oreqs

\* Game.add_user(user): self.state.users[user.user_id] = user
AddUserState(st, uid, user) ==
    [st EXCEPT !.users = [u \in DOMAIN @ \cup {uid} |->
                            IF u = uid THEN user ELSE @[u]]]

\* ---------------------------------------------------------------- GameList
\* An element of a Python list of the GameList: a Game (the v-th one handed
\* to insert_game), None, or an int.
GameObj(n) == [kind |-> "Game", v |-> n]
NoneObj == [kind |-> "None", v |-> 0]
IntObj(i) == [kind |-> "int", v |-> i]

\* GameList.__init__; module names the file whose GameList it is.
NewGameList(module) ==
    [module |-> module, games |-> <<>>, free_indexes |-> <<>>,
     largest_index_in_use |-> 0]

\* a < b raises TypeError unless both are ints: Game defines no ordering and
\* None has none.
Comparable(a, b) == a.kind = "int" /\ b.kind = "int"

\* The list with the elements at positions p and q (from 1) exchanged.
Swap(heap, p, q) == [heap EXCEPT ![p] = heap[q], ![q] = heap[p]]

\* heapq's siftdown(heap, 0, pos), positions from 0: the new item moves up
\* while it is smaller than its parent, exchanging the two in place; a
\* comparison that raises leaves the list as the exchanges so far made it.
RECURSIVE Siftdown(_, _)
Siftdown(heap, pos) ==
    IF pos = 0 THEN [k |-> "ok", heap |-> heap]
    ELSE LET parentpos == (pos - 1) \div 2
             newitem == heap[pos + 1]
             parent == heap[parentpos + 1]
         IN IF ~Comparable(newitem, parent) THEN [k |-> "TypeError", heap |-> heap]
            ELSE IF newitem.v < parent.v
                 THEN Siftdown(Swap(heap, pos + 1, parentpos + 1), parentpos)
            ELSE [k |-> "ok", heap |-> heap]

\* heapq.heappush(heap, item): append, then siftdown from the last position.
HeapPush(heap, item) == Siftdown(Append(heap, item), Len(heap))

\* heapq's siftup(heap, pos): the smaller child moves up until a leaf is
\* reached, then siftdown from there.
RECURSIVE Siftup(_, _)
Siftup(heap, pos) ==
    LET endpos == Len(heap)
        c == 2 * pos + 1
    IN IF pos < endpos \div 2
       THEN IF c + 1 < endpos /\ ~Comparable(heap[c + 1], heap[c + 2])
            THEN [k |-> "TypeError", heap |-> heap]
            ELSE LET childpos == IF c + 1 < endpos /\ ~(heap[c + 1].v < heap[c + 2].v)
                                 THEN c + 1 ELSE c
                 IN Siftup(Swap(heap, childpos + 1, pos + 1), childpos)
       ELSE Siftdown(heap, pos)

\* heapq.heappop(heap) of a non-empty heap: the first element is returned,
\* the last one takes its place and is sifted.
HeapPop(heap) ==
    LET lastelt == heap[Len(heap)]
        rest == SubSeq(heap, 1, Len(heap) - 1)
    IN IF rest = <<>> THEN [k |-> "ok", heap |-> rest, item |-> lastelt]
       ELSE LET s == Siftup([rest EXCEPT ![1] = lastelt], 0)
            IN [k |-> s.k, heap |-> s.heap, item |-> heap[1]]

\* What a GameList method left behind: the GameList, how the call ended and
\* the index it returned (insert_game).
ListReturn(gl, index) == [gl |-> gl, kind |-> "returned", exc |-> "", index |-> index]
ListRaise(gl, e) == [gl |-> gl, kind |-> "raised", exc |-> e, index |-> 0]

\* self.games.insert(index, game) (src/game.py): the elements from index on
\* move one place up; an index at or past the end appends.
GameStore(gl, index, game) ==
    ListReturn([gl EXCEPT !.games =
                   IF index >= Len(@) THEN Append(@, game)
                   ELSE SubSeq(@, 1, index) \o <<game>> \o SubSeq(@, index + 1, Len(@))],
               index)

\* self.games[index] = game (src/server.py): an index at or past the end
\* raises IndexError.
ServerStore(gl, index, game) ==
    IF index >= Len(gl.games) THEN ListRaise(gl, "IndexError")
    ELSE ListReturn([gl EXCEPT !.games[index + 1] = game], index)

Store(gl, index, game) ==
    IF gl.module = "server" THEN ServerStore(gl, index, game)
    ELSE GameStore(gl, index, game)

\* GameList.insert_game(game)
InsertGame(gl, game) ==
    IF Len(gl.free_indexes) # 0
    THEN LET p == HeapPop(gl.free_indexes) IN
         IF p.k # "ok" THEN ListRaise([gl EXCEPT !.free_indexes = p.heap], p.k)
         ELSE Store([gl EXCEPT !.free_indexes = p.heap], p.item.v, game)
    ELSE Store([gl EXCEPT !.largest_index_in_use = Len(gl.games)],
               Len(gl.games), game)

\* The while loop of free_game (lines 272-275): self.free_indexes.pop(i)
\* removes the element at position i, and raises IndexError past the end.
RECURSIVE TrimLoop(_, _)
TrimLoop(free, i) ==
    IF i > 0 /\ \E p \in DOMAIN free : free[p] = IntObj(i)
    THEN IF i >= Len(free) THEN [k |-> "IndexError", free |-> free, i |-> i]
         ELSE TrimLoop(SubSeq(free, 1, i) \o SubSeq(free, i + 2, Len(free)), i - 1)
    ELSE [k |-> "ok", free |-> free, i |-> i]

\* A free_game that takes the slot out of the list, del self.games[index],
\* so that the sessions stored after it move one place down.
FreeGameDel(gl, index) ==
    IF index >= Len(gl.games) THEN ListRaise(gl, "IndexError")
    ELSE ListReturn([gl EXCEPT !.games = SubSeq(@, 1, index)
                                          \o SubSeq(@, index + 2, Len(@))], 0)

\* GameList.free_game(index), for an index >= 0.
FreeGame(gl, index) ==
    IF index # gl.largest_index_in_use
    THEN IF index >= Len(gl.games) THEN ListRaise(gl, "IndexError")
         ELSE LET h == HeapPush([gl.games EXCEPT ![index + 1] = NoneObj],
                                IntObj(index))
              IN IF h.k = "ok" THEN ListReturn([gl EXCEPT !.games = h.heap], 0)
                 ELSE ListRaise([gl EXCEPT !.games = h.heap], h.k)
    ELSE LET t == TrimLoop(gl.free_indexes, index - 1) IN
         IF t.k # "ok" THEN ListRaise([gl EXCEPT !.free_indexes = t.free], t.k)
         ELSE ListReturn([gl EXCEPT !.free_indexes = t.free,
                                    !.games = SubSeq(@, 1, IF t.i + 1 < Len(@)
                                                           THEN t.i + 1 ELSE Len(@))],
                         0)

\* What the callers of the GameList hold: the last call and how it ended, the
\* id insert_game returned for every session not yet handed to free_game
\* (ids), the ids handed to free_game and not returned by insert_game since
\* (freed), and the number of sessions created so far (count).
NoAlloc ==
    [call |-> "none", kind |-> "none", exc |-> "", index |-> 0,
     ids |-> EmptyMap, freed |-> {}, count |-> 0]

\* A make_request in progress: the line it is at (pc), its local variables,
\* how it ended and the number of committed requests it re-applied (steps).
NoRun ==
    [pc |-> "idle", request |-> <<>>, times |-> <<>>, time_i |-> 0, j |-> 0,
     cur |-> <<>>, new |-> <<>>, invalidates |-> <<>>, kind |-> "none",
     exc |-> "", steps |-> 0]

\* ----------------------------------------------------------------- engine
\* The committed requests a caller may have stored in game.requests:
\* Game.__init__ only annotates the attribute and no method writes it.
SeedRequests(t) ==
    {MkRequest(1, 1, t, NoneId, "start_game", TRUE),
     MkRequest(1, 1, t, TaskId, "add_token", TRUE)}

SeedBuckets(t) == {<<>>} \cup {<<r>> : r \in SeedRequests(t)}

SeedTimelines ==
    UNION {{tl \in [T -> UNION {SeedBuckets(t) : t \in T}] :
                \A t \in T : tl[t] \in SeedBuckets(t)} : T \in SUBSET Ticks}

EngineSetups ==
    {EmptyMap,
     [o \in {TaskId} |->
        [NewTask EXCEPT !.operations = {"add_token"}, !.current_tokens = <<0>>,
                        !.max_tokens = <<MaxTokens>>, !.cur_token = <<0>>]]}

\* Game.__init__: self.state = Game.State(); self.requests is not assigned
\* (requests = <<>>).  No method of the source fills state.objects or
\* self.requests, so the Game is taken either as constructed or with the
\* objects and the committed requests a caller has assigned to it.
Init ==
    /\ \E objs \in EngineSetups : state = [NewState EXCEPT !.objects = objs]
    /\ requests \in {<<>>} \cup {<<tl>> : tl \in SeedTimelines}
    /\ ret = NoRet
    /\ twin = NoTwin
    /\ gamelist = NewGameList("game")
    /\ alloc = NoAlloc
    /\ run = NoRun

AddUser(uid, user) ==
    /\ state' = AddUserState(state, uid, user)
    /\ ret' = [NoRet EXCEPT !.call = "add_user", !.kind = "returned"]
    /\ UNCHANGED <<requests, twin, gamelist, alloc, run>>

MakeRequest(request) ==
    /\ ret' = MakeRequestResult(state, requests, request)
    /\ state' = MakeRequestState(state, requests, request)
    /\ requests' = MakeRequestRequests(state, requests, request)
    /\ UNCHANGED <<twin, gamelist, alloc, run>>

Next ==
    \/ \E uid \in UserIds, user \in UserValues : AddUser(uid, user)
    \/ \E request \in Requests : MakeRequest(request)

Spec == Init /\ [][Next]_vars

\* ------------------------------------------------- the handlers on their own
\* The States and requests a handler may be called with.
InputStates ==
    {[NewState EXCEPT !.objects = objs, !.users = us, !.game_phase = ph] :
        objs \in ObjectSetups,
        us \in UNION {[U -> UserValues] : U \in SUBSET UserIds},
        ph \in Phases}

HandlerRequests == {r \in Requests : r.request_id = 1 /\ r.target_tick = 0}

\* A handler that writes to the State it was given and returns it:
\* state.game_phase = ...; return state.
HandlerObjectsInPlace(st, r) ==
    [arg |-> IF r.k = "State" THEN r.st[1] ELSE st,
     returned |-> IF r.k = "State" THEN "arg" ELSE "none"]

\* The objects after a handler call with outcome r: arg is the State object
\* the handler was given.  Both handlers write to new_state =
\* deepcopy(state) only (lines 185-187 and 226-229) and return that copy.
HandlerObjects(st, r) ==
    [arg |-> st, returned |-> IF r.k = "State" THEN "copy" ELSE "none"]

\* What a handler call left behind: working is the State it was given, as
\* it was before the call, out the State it returned (<<>> when it returned
\* None or raised).
HandlerRet(call, st, request, r) ==
    [NoRet EXCEPT !.call = call,
                  !.kind = IF r.k = "Raise" THEN "raised" ELSE "returned",
                  !.exc = r.exc, !.request = <<request>>,
                  !.working = <<st>>, !.out = r.st,
                  !.object = HandlerObjects(st, r).returned]

ApplyInit ==
    /\ state \in InputStates
    /\ requests = <<>>
    /\ ret = NoRet
    /\ twin = NoTwin
    /\ gamelist = NewGameList("game")
    /\ alloc = NoAlloc
    /\ run = NoRun

\* Each input State is handed to one handler call; state is the object
\* handed to the handler, so after the call it is what the call left of it.
CallApplyRequest(request) ==
    /\ ret.call = "none"
    /\ ret' = HandlerRet("_apply_request", state, request,
                         ApplyRequest(state, request))
    /\ state' = HandlerObjects(state, ApplyRequest(state, request)).arg
    /\ UNCHANGED <<requests, twin, gamelist, alloc, run>>

CallGopAddToken(request) ==
    /\ ret.call = "none"
    /\ ret' = HandlerRet("_gop_add_token", state, request,
                         GopAddToken(state, request))
    /\ state' = HandlerObjects(state, GopAddToken(state, request)).arg
    /\ UNCHANGED <<requests, twin, gamelist, alloc, run>>

ApplyNext ==
    \/ \E request \in HandlerRequests : CallApplyRequest(request)
    \/ \E request \in HandlerRequests : CallGopAddToken(request)

ApplySpec == ApplyInit /\ [][ApplyNext]_vars

\* ------------------------------------------------- two orders of arrival
\* A Game with a LEADER (user 1) and token holders (the other users), and two
\* requests of different target ticks.
OrderUsers ==
    [u \in UserIds |->
        IF u = 1 THEN [role |-> "LEADER", free_tokens |-> <<>>]
        ELSE [role |-> "USER", free_tokens |-> <<MaxTokens>>]]

OrderRequests(id) ==
    {MkRequest(u, id, t, IF op = "add_token" THEN TaskId ELSE NoneId, op, has) :
        u \in UserIds, t \in Ticks, op \in Operations, has \in BOOLEAN}

OrderInit ==
    /\ \E objs \in EngineSetups :
          state = [NewState EXCEPT !.objects = objs, !.users = OrderUsers]
    /\ requests \in {<<>>} \cup {<<tl>> : tl \in SeedTimelines}
    /\ ret = NoRet
    /\ \E r1 \in OrderRequests(1), r2 \in OrderRequests(2) :
          /\ r1.target_tick # r2.target_tick
          /\ twin = [NoTwin EXCEPT !.state = state, !.requests = requests,
                                   !.first = <<r1>>, !.second = <<r2>>]
    /\ gamelist = NewGameList("game")
    /\ alloc = NoAlloc
    /\ run = NoRun

\* Both Games are given a request: this one r, the twin rtwin.
SubmitBoth(r, rtwin) ==
    /\ ret' = MakeRequestResult(state, requests, r)
    /\ state' = MakeRequestState(state, requests, r)
    /\ requests' = MakeRequestRequests(state, requests, r)
    /\ twin' = [twin EXCEPT
                  !.state = MakeRequestState(twin.state, twin.requests, rtwin),
                  !.requests = MakeRequestRequests(twin.state, twin.requests, rtwin),
                  !.pc = @ + 1,
                  !.accepted =
                      /\ @
                      /\ ret'.new # <<>>
                      /\ MakeRequestResult(twin.state, twin.requests, rtwin).new # <<>>]
    /\ UNCHANGED <<gamelist, alloc, run>>

SubmitFirst == twin.pc = 0 /\ SubmitBoth(twin.first[1], twin.second[1])

SubmitSecond == twin.pc = 1 /\ SubmitBoth(twin.second[1], twin.first[1])

OrderNext == SubmitFirst \/ SubmitSecond

OrderSpec == OrderInit /\ [][OrderNext]_vars

\* ------------------------------------------------- the GameList on its own
\* A GameList as constructed, of either file; insert_game is given a new
\* session each time and free_game the id of a session that insert_game
\* returned and that was not handed to free_game before.
AllocInit ==
    /\ state = NewState
    /\ requests = <<>>
    /\ ret = NoRet
    /\ twin = NoTwin
    /\ gamelist \in {NewGameList("game"), NewGameList("server")}
    /\ alloc = NoAlloc
    /\ run = NoRun

CallInsertGame ==
    /\ alloc.count < MaxGames
    /\ LET n == alloc.count + 1
           o == InsertGame(gamelist, GameObj(n))
       IN /\ gamelist' = o.gl
          /\ alloc' =
                [call |-> "insert_game", kind |-> o.kind, exc |-> o.exc,
                 index |-> o.index,
                 ids |-> IF o.kind = "returned"
                         THEN [s \in DOMAIN alloc.ids \cup {n} |->
                                  IF s = n THEN o.index ELSE alloc.ids[s]]
                         ELSE alloc.ids,
                 freed |-> IF o.kind = "returned" THEN alloc.freed \ {o.index}
                           ELSE alloc.freed,
                 count |-> n]
    /\ UNCHANGED <<state, requests, ret, twin, run>>

CallFreeGame(n) ==
    /\ n \in DOMAIN alloc.ids
    /\ LET o == FreeGame(gamelist, alloc.ids[n])
       IN /\ gamelist' = o.gl
          /\ alloc' =
                [alloc EXCEPT !.call = "free_game", !.kind = o.kind,
                              !.exc = o.exc, !.index = alloc.ids[n],
                              !.ids = [s \in DOMAIN @ \ {n} |-> @[s]],
                              !.freed = @ \cup {alloc.ids[n]}]
    /\ UNCHANGED <<state, requests, ret, twin, run>>

AllocNext ==
    \/ CallInsertGame
    \/ \E n \in 1..MaxGames : CallFreeGame(n)

AllocSpec == AllocInit /\ [][AllocNext]_vars

\* ------------------------------------------- make_request, line by line
\* A loop that does not move on to the next tick.
AdvanceStuck(time_i) == time_i

\* time_i = time_i + 1 (lines 142 and 162)
Advance(time_i) == time_i + 1

\* How a make_request in progress ends.
RunReturn(r) == [r EXCEPT !.pc = "done", !.kind = "returned"]

RunRaise(r, e) == [r EXCEPT !.pc = "done", !.kind = "raised", !.exc = e]

StepInit ==
    /\ \E objs \in EngineSetups :
          state = [NewState EXCEPT !.objects = objs, !.users = OrderUsers]
    /\ requests \in {<<>>} \cup {<<tl>> : tl \in SeedTimelines}
    /\ ret = NoRet
    /\ twin = NoTwin
    /\ gamelist = NewGameList("game")
    /\ alloc = NoAlloc
    /\ run = NoRun

\* Lines 127-131: the call starts when no other call is in progress.
BeginRequest(request) ==
    /\ run.pc = "idle"
    /\ run' = IF requests = <<>>
              THEN RunRaise([NoRun EXCEPT !.request = <<request>>], "AttributeError")
              ELSE [NoRun EXCEPT !.pc = "first", !.request = <<request>>,
                                 !.times = SortedSeq(DOMAIN requests[1]),
                                 !.cur = <<state>>]
    /\ UNCHANGED <<state, requests, ret, twin, gamelist, alloc>>

\* One test of the first while loop and, when it passes, its body (lines
\* 133-142).
FirstLoopStep ==
    /\ run.pc = "first"
    /\ run' =
         IF run.time_i < Len(run.times)
            /\ run.times[run.time_i + 1] > run.request[1].target_tick
         THEN IF run.times[run.time_i + 1] > run.request[1].target_tick
              THEN [run EXCEPT !.pc = "apply"]
              ELSE LET bucket == requests[1][run.times[run.time_i + 1]]
                       b == ApplyBucket(run.cur, bucket, 1)
                   IN IF b.k = "Raise" THEN RunRaise(run, b.exc)
                      ELSE [run EXCEPT !.cur = b.cur,
                                       !.time_i = Advance(run.time_i),
                                       !.steps = @ + Len(bucket)]
         ELSE [run EXCEPT !.pc = "apply"]
    /\ UNCHANGED <<state, requests, ret, twin, gamelist, alloc>>

\* Lines 144-151: the submitted request is applied.
ApplyStep ==
    /\ run.pc = "apply"
    /\ run' =
         LET applied == ApplyRequestOpt(run.cur, run.request[1]) IN
         IF applied.k = "Raise" THEN RunRaise(run, applied.exc)
         ELSE IF applied.k = "None"
              THEN RunReturn([run EXCEPT !.invalidates = run.request])
         ELSE [run EXCEPT !.pc = "second", !.cur = applied.st,
                          !.new = run.request, !.j = 1]
    /\ UNCHANGED <<state, requests, ret, twin, gamelist, alloc>>

\* One step of the second while loop (lines 154-164): its test, the next
\* request of the bucket self.requests[time_i], or the end of the bucket.
SecondLoopStep ==
    /\ run.pc = "second"
    /\ run' =
         IF run.time_i >= Len(run.times) THEN RunReturn(run)
         ELSE IF run.time_i \notin DOMAIN requests[1] THEN RunRaise(run, "KeyError")
         ELSE IF run.j > Len(requests[1][run.time_i])
              THEN [run EXCEPT !.time_i = Advance(run.time_i), !.j = 1]
         ELSE LET req == requests[1][run.time_i][run.j]
                  proposed_state == ApplyRequest(run.cur[1], req)
              IN IF proposed_state.k = "Raise"
                 THEN RunRaise([run EXCEPT !.steps = @ + 1], proposed_state.exc)
                 ELSE IF proposed_state.k = "State"
                 THEN [run EXCEPT !.cur = proposed_state.st, !.j = @ + 1,
                                  !.steps = @ + 1]
                 ELSE [run EXCEPT !.invalidates = Append(@, req), !.j = @ + 1,
                                  !.steps = @ + 1]
    /\ UNCHANGED <<state, requests, ret, twin, gamelist, alloc>>

RunStep == FirstLoopStep \/ ApplyStep \/ SecondLoopStep

\* The call is over: its local variables are gone and the next call may
\* start.
EndRequest ==
    /\ run.pc = "done"
    /\ run' = NoRun
    /\ UNCHANGED <<state, requests, ret, twin, gamelist, alloc>>

StepNext ==
    \/ \E request \in Requests : BeginRequest(request)
    \/ RunStep
    \/ EndRequest

\* make_request is ordinary sequential code: the interpreter goes on to the
\* next line until the call returns or raises.
StepSpec == StepInit /\ [][StepNext]_vars /\ WF_vars(RunStep)

\* ------------------------------------------------------------- properties
\* The request of the last call, and whether that call was a make_request
\* that returned with the request accepted.
Submitted == ret.request[1]

Accepted == ret.call = "make_request" /\ ret.kind = "returned" /\ ret.new # <<>>

\* No committed request carries the request_id of the submitted request.
FreshId ==
    requests # <<>> =>
        \A t \in DOMAIN requests[1] : \A i \in DOMAIN requests[1][t] :
            requests[1][t][i].request_id # Submitted.request_id

\* r is in the Timeline bucket of its target tick.
Stored(r) ==
    /\ requests # <<>>
    /\ r.target_tick \in DOMAIN requests[1]
    /\ \E i \in DOMAIN requests[1][r.target_tick] : requests[1][r.target_tick][i] = r

\* The replay the specification describes: every bucket of reqs whose tick
\* is below tick, in ascending tick order and bucket order, each request
\* applied to the State the one before returned; <<>> when one of them is
\* not accepted.
RECURSIVE ReplayBucket(_, _, _)
ReplayBucket(ocur, bucket, j) ==
    IF ocur = <<>> \/ j > Len(bucket) THEN ocur
    ELSE ReplayBucket(ApplyRequest(ocur[1], bucket[j]).st, bucket, j + 1)

RECURSIVE ReplayTicks(_, _, _, _)
ReplayTicks(ocur, reqs, times, i) ==
    IF ocur = <<>> \/ i > Len(times) THEN ocur
    ELSE ReplayTicks(ReplayBucket(ocur, reqs[times[i]], 1), reqs, times, i + 1)

ReplayBefore(st, reqs, tick) ==
    ReplayTicks(<<st>>, reqs, SortedSeq({t \in DOMAIN reqs : t < tick}), 1)

\* The committed requests of the ticks above tick, in ascending tick order.
RECURSIVE Concat(_, _, _)
Concat(reqs, times, i) ==
    IF i > Len(times) THEN <<>>
    ELSE reqs[times[i]] \o Concat(reqs, times, i + 1)

LaterRequests(reqs, tick) ==
    Concat(reqs, SortedSeq({t \in DOMAIN reqs : t > tick}), 1)

\* C1: after an accepted submit the Game's committed State is the final
\* working State of that call (the replay of the whole Timeline).
C1_CommittedStateIsFinalWorkingState ==
    Accepted => state = ret.out[1]

\* C2: a submit whose request the rules reject (here: the game-scoped
\* start_game of a registered user whose role is USER) returns a GameUpdate
\* with invalidated = [request] and newly_committed empty.
C2_RejectedReturnsInvalidated ==
    (/\ ret.call = "make_request"
     /\ Submitted.operation = "start_game"
     /\ Submitted.operation_target = NoneId
     /\ Submitted.user_id \in DOMAIN state.users
     /\ state.users[Submitted.user_id].role = "USER")
    => (/\ ret.kind = "returned"
        /\ ret.invalidates = <<Submitted>>
        /\ ret.new = <<>>)

\* C3: after an accepted submit the request is in the Timeline bucket of its
\* target tick and in the returned newly_committed list.
C3_AcceptedIsStoredAndReported ==
    Accepted =>
        (/\ Stored(Submitted)
         /\ \E i \in DOMAIN ret.new : ret.new[i] = Submitted)

\* C4: the working State the incoming request is validated against is the
\* replay, from the baseline, of exactly the committed requests whose tick is
\* below the target tick.
C4_ValidatedAgainstReplayOfEarlierTicks ==
    (/\ ret.call = "make_request"
     /\ ret.working # <<>>
     /\ ReplayBefore(state, requests[1], Submitted.target_tick) # <<>>)
    => ret.working = ReplayBefore(state, requests[1], Submitted.target_tick)

\* C5: an accepted submit re-applies exactly the committed requests of the
\* ticks above the target tick, in ascending tick order, and every one that
\* fails is removed from the Timeline when it is reported invalidated.
C5_CascadeReappliesLaterTicksAndRemoves ==
    (Accepted /\ FreshId) =>
        (/\ ret.reapplied = LaterRequests(requests[1], Submitted.target_tick)
         /\ \A i \in DOMAIN ret.invalidates : ~Stored(ret.invalidates[i]))

C9_StartGameNeedsLeaderAndWaiting ==
    (/\ ret.call = "_apply_request"
     /\ Submitted.operation = "start_game"
     /\ Submitted.target_id = <<NoneId>>
     /\ Submitted.user_id \in DOMAIN state.users
     /\ state.users[Submitted.user_id].role \in {"USER", "LEADER"})
    => IF state.users[Submitted.user_id].role = "LEADER"
          /\ state.game_phase = "WAITING"
       THEN ret.kind = "returned"
            /\ ret.out = <<[state EXCEPT !.game_phase = "PLANNING"]>>
       ELSE ret.kind = "returned" /\ ret.out = <<>>

\* C10: add_token is rejected when the user's free-token budget is zero or
\* the Task is full, and otherwise returns the input State with the Task's
\* current_tokens one larger and the user's free_tokens one smaller.
C10_AddTokenMovesOneToken ==
    (/\ ret.call = "_gop_add_token"
     /\ Submitted.target_id = <<TaskId>>
     /\ Submitted.user_id \in DOMAIN state.users
     /\ state.users[Submitted.user_id].free_tokens # <<>>
     /\ TaskId \in DOMAIN state.objects
     /\ state.objects[TaskId].current_tokens # <<>>
     /\ state.objects[TaskId].max_tokens # <<>>)
    => LET u == Submitted.user_id
           task == state.objects[TaskId]
       IN IF state.users[u].free_tokens[1] = 0
             \/ task.current_tokens = task.max_tokens
          THEN ret.kind = "returned" /\ ret.out = <<>>
          ELSE /\ ret.kind = "returned"
               /\ ret.out =
                    <<[state EXCEPT
                        !.objects[TaskId].current_tokens = <<@[1] + 1>>,
                        !.users[u].free_tokens = <<@[1] - 1>>]>>

\* The committed requests of the ticks below tick, in ascending tick order.
EarlierRequests(reqs, tick) ==
    Concat(reqs, SortedSeq({t \in DOMAIN reqs : t < tick}), 1)

\* How re-applying seq from st, each request on the State the one before
\* returned, ends: "State" when every request is accepted, else the outcome
\* ("None" or "Raise") of the first request that is not.
RECURSIVE ReplayKind(_, _, _)
ReplayKind(st, seq, j) ==
    IF j > Len(seq) THEN "State"
    ELSE LET r == ApplyRequest(st, seq[j]) IN
         IF r.k = "State" THEN ReplayKind(r.st[1], seq, j + 1) ELSE r.k

\* C11: a submit whose operation target names an entity that is not in the
\* State, or whose operation is not in the target entity's operation set, is
\* rejected: the call returns a GameUpdate with the request in invalidated
\* and raises nothing.
C11_UnknownTargetOrOperationRejected ==
    (/\ ret.call = "make_request"
     /\ requests # <<>>
     /\ Submitted.target_id # <<>>
     /\ Truthy(Submitted.operation_target)
     /\ \/ Submitted.operation_target \notin DOMAIN state.objects
        \/ Submitted.operation \notin
              state.objects[Submitted.operation_target].operations)
    => (/\ ret.kind = "returned"
        /\ ret.invalidates = <<Submitted>>
        /\ ret.new = <<>>)

\* C12: when a committed request of a tick below the target tick fails to
\* re-apply (the rules reject it on the State replayed so far), submit ends
\* with an error: it does not return a GameUpdate as if the replay had
\* succeeded.
C12_ReplayFailureIsReported ==
    (/\ ret.call = "make_request"
     /\ requests # <<>>
     /\ ReplayKind(state, EarlierRequests(requests[1], Submitted.target_tick), 1)
            = "None")
    => ret.kind = "raised"

\* The ids of the live sessions, and the largest of a non-empty set of ids.
LiveIds == {alloc.ids[n] : n \in DOMAIN alloc.ids}

SmallestOf(S) == CHOOSE x \in S : \A y \in S : x <= y

LargestOf(S) == CHOOSE x \in S : \A y \in S : y <= x

\* The number of places of the free-id pool that hold the id i.
TimesInPool(gl, i) ==
    Cardinality({p \in DOMAIN gl.free_indexes : gl.free_indexes[p] = IntObj(i)})

\* C13: insert_game returns the smallest id that was released and not reused
\* since when there is one, and otherwise the id at the end of storage, which
\* becomes the high-water mark.
C13_AllocateReusesSmallestFreedId ==
    [][alloc'.count = alloc.count + 1 =>
          /\ alloc'.kind = "returned"
          /\ IF alloc.freed # {}
             THEN alloc'.index = SmallestOf(alloc.freed)
             ELSE /\ alloc'.index = Len(gamelist.games)
                  /\ gamelist'.largest_index_in_use = alloc'.index]_vars

\* C14: every id below the high-water mark is a live session or is in the
\* free-id pool exactly once, no id is in the pool twice, and the pool does
\* not hold the high-water mark itself.
C14_EveryIdLiveOrFreeOnce ==
    /\ \A i \in 0..(gamelist.largest_index_in_use - 1) :
          i \in LiveIds \/ TimesInPool(gamelist, i) = 1
    /\ \A i \in 0..gamelist.largest_index_in_use : TimesInPool(gamelist, i) <= 1
    /\ TimesInPool(gamelist, gamelist.largest_index_in_use) = 0

\* C15: free_game of the id at the high-water mark removes the trailing run
\* of freed slots from storage: afterwards the high-water mark is the highest
\* id of a live session, storage ends there, and the free-id pool holds no id
\* at or above it.
C15_ReleaseOfLastSlotTrims ==
    [][(/\ alloc'.call = "free_game"
        /\ alloc'.ids # alloc.ids
        /\ alloc'.index = gamelist.largest_index_in_use
        /\ alloc'.ids # EmptyMap)
       => LET top == LargestOf({alloc'.ids[n] : n \in DOMAIN alloc'.ids}) IN
          /\ alloc'.kind = "returned"
          /\ gamelist'.largest_index_in_use = top
          /\ Len(gamelist'.games) = top + 1
          /\ \A p \in DOMAIN gamelist'.free_indexes :
                gamelist'.free_indexes[p].v < top]_vars

\* C18: every live session is stored under the id insert_game returned for
\* it, and no two live sessions have the same id.
C18_LiveSessionsKeepTheirIds ==
    /\ \A n \in DOMAIN alloc.ids :
          /\ alloc.ids[n] < Len(gamelist.games)
          /\ gamelist.games[alloc.ids[n] + 1] = GameObj(n)
    /\ \A n, m \in DOMAIN alloc.ids : alloc.ids[n] = alloc.ids[m] => n = m

\* Two sessions are live and a session between them was released.
C18_LiveAroundAReleasedSlot ==
    /\ alloc.call = "free_game"
    /\ \E a, b \in LiveIds : a < alloc.index /\ alloc.index < b

CommittedCount ==
    IF requests = <<>> THEN 0
    ELSE Len(Concat(requests[1], SortedSeq(DOMAIN requests[1]), 1))

\* A finished line-by-line call ended as make_request ends on the same Game
\* and request, with the same GameUpdate when it returned.
StepsAgree ==
    run.pc = "done" =>
        LET r == MakeRequestResult(state, requests, run.request[1]) IN
        /\ r.kind = run.kind
        /\ r.exc = run.exc
        /\ Len(r.reapplied) = run.steps
        /\ r.kind = "returned" =>
              (r.new = run.new /\ r.invalidates = run.invalidates)

\* C17: every make_request that has begun ends, by returning or raising, and
\* re-applies at most as many committed requests as the Timeline holds.
C17_SubmitTerminates ==
    /\ (run.pc \in {"first", "apply", "second"}) ~> (run.pc = "done")
    /\ [](run.steps <= CommittedCount)

\* A call that re-applied a committed request has returned.
C17_ReturnedAfterReplay ==
    run.pc = "done" /\ run.kind = "returned" /\ run.steps > 0

\* r is one of the requests of bucket.
InBucket(r, bucket) == \E k \in DOMAIN bucket : bucket[k] = r

\* C19: a submit leaves the Timeline buckets of the ticks below the target
\* tick and the requests already stored at the target tick as they were, and
\* its invalidated list holds only the submitted request (when it was
\* rejected) or committed requests of ticks above the target tick.
C19_HistoryUpToTargetTickUntouched ==
    [][(ret'.call = "make_request" /\ requests # <<>> /\ FreshId')
       => LET tick == ret'.request[1].target_tick
              before == requests[1]
          IN /\ requests' # <<>>
             /\ \A t \in DOMAIN before :
                   t < tick => (/\ t \in DOMAIN requests'[1]
                                /\ requests'[1][t] = before[t])
             /\ tick \in DOMAIN before =>
                   /\ tick \in DOMAIN requests'[1]
                   /\ \A i \in DOMAIN before[tick] :
                         InBucket(before[tick][i], requests'[1][tick])
             /\ \A i \in DOMAIN ret'.invalidates :
                   \/ ret'.invalidates[i] = ret'.request[1] /\ ret'.new = <<>>
                   \/ \E t \in DOMAIN before :
                         t > tick /\ InBucket(ret'.invalidates[i], before[t])]_vars

\* The number of requests of seq that add a token to the Task.
RECURSIVE AddTokens(_, _)
AddTokens(seq, j) ==
    IF j > Len(seq) THEN 0
    ELSE (IF seq[j].operation = "add_token" /\ seq[j].operation_target = TaskId
          THEN 1 ELSE 0) + AddTokens(seq, j + 1)

\* The Task is full at tick: its tokens in the committed State and the
\* tokens the committed requests of the ticks below tick add reach max_tokens.
TaskFullAt(tick) ==
    state.objects[TaskId].current_tokens[1]
        + AddTokens(EarlierRequests(requests[1], tick), 1)
    >= state.objects[TaskId].max_tokens[1]

\* C20: in the committed State every Task has 0 <= current_tokens <=
\* max_tokens and every user a free-token budget >= 0, and an add_token
\* submitted against a Task that is full at its tick is rejected: it is
\* returned in invalidated and is not stored.
C20_TokenBounds ==
    /\ \A o \in DOMAIN state.objects :
          (state.objects[o].current_tokens # <<>> /\ state.objects[o].max_tokens # <<>>)
          => /\ 0 <= state.objects[o].current_tokens[1]
             /\ state.objects[o].current_tokens[1] <= state.objects[o].max_tokens[1]
    /\ \A u \in DOMAIN state.users :
          state.users[u].free_tokens # <<>> => state.users[u].free_tokens[1] >= 0
    /\ (/\ ret.call = "make_request"
        /\ requests # <<>>
        /\ FreshId
        /\ Submitted.operation = "add_token"
        /\ Submitted.target_id = <<TaskId>>
        /\ Submitted.user_id \in DOMAIN state.users
        /\ state.users[Submitted.user_id].free_tokens # <<>>
        /\ TaskId \in DOMAIN state.objects
        /\ TaskFullAt(Submitted.target_tick))
       => (/\ ret.kind = "returned"
           /\ ret.invalidates = <<Submitted>>
           /\ ret.new = <<>>
           /\ ~Stored(Submitted))

====
